---- MODULE Spec2Model ----
(***************************************************************************)
(* A model of gitlab_exporter.py: the GitlabCollector class (configuration *)
(* parsing, entity loading with glob filters, the six facet collectors,    *)
(* collect()) and the __main__ block that builds two collector instances   *)
(* and serves them on two scrape endpoints.                                *)
(*                                                                         *)
(* Strings that are matched character by character (entity paths, glob     *)
(* patterns) are sequences of one-character strings; other strings are     *)
(* TLA+ strings.  A Python Optional is a sequence of length 0 (None) or 1. *)
(* Metric values that are floats in the program are integers here.         *)
(***************************************************************************)
EXTENDS Integers, Sequences, FiniteSets, TLC

VARIABLES
    pc,        \* position of the main thread in the __main__ block
    config,    \* the contents of config.cfg
    up,        \* the upstream platform: groups and projects with sub-resources
    inst,      \* inst[i]: the fields of collector_i (a GitlabCollector)
    serving,   \* the ports on which start_http_server has been called
    scrape,    \* scrape[i]: the scrape in progress / last served by collector_i
    changes,   \* number of upstream changes so far
    fault,     \* the exception raised during startup, if any
    call       \* the latest direct invocation of one collector method

vars == <<pc, config, up, inst, serving, scrape, changes, fault, call>>

----------------------------------------------------------------------------
(* Bounds *)

MaxFilters == 2     \* longest filter list drawn from the configuration
MaxItems   == 2     \* longest sub-resource list drawn for one project
MaxChanges == 1     \* upstream changes during one run of the process

(* Program constants *)

PortFast == 9118
PortSlow == 9119
SuperHighLevel == 100000

----------------------------------------------------------------------------
(* Small utilities *)

Range(s) == {s[k] : k \in DOMAIN s}

SeqsUpTo(S, n) == UNION {[1..k -> S] : k \in 0..n}

RECURSIVE Flatten(_)
Flatten(ss) == IF ss = <<>> THEN <<>> ELSE Head(ss) \o Flatten(Tail(ss))

\* The samples of the family called name in a list of families
\* (every collector returns each family name once).
SamplesOf(fams, name) ==
    Flatten([k \in DOMAIN fams |->
                IF fams[k].name = name THEN fams[k].samples ELSE <<>>])

AllSamples(fams) == Flatten([k \in DOMAIN fams |-> fams[k].samples])

----------------------------------------------------------------------------
(* Status tables *)

pipeline_status_map ==
    [s \in {"running", "pending", "success", "failed", "canceled", "skipped"} |->
        CASE s = "running"  -> 0
          [] s = "pending"  -> 1
          [] s = "success"  -> 2
          [] s = "failed"   -> 3
          [] s = "canceled" -> 4
          [] s = "skipped"  -> 5]

issue_status_map ==
    [s \in {"opened", "closed"} |->
        CASE s = "opened" -> 0
          [] s = "closed" -> 1]

mr_status_map ==
    [s \in {"opened", "closed", "locked", "merged"} |->
        CASE s = "opened" -> 0
          [] s = "closed" -> 1
          [] s = "locked" -> 2
          [] s = "merged" -> 3]

\* A faulty variant of Lookup: d.get(k, 0), an unmapped key coerced to 0.
LookupCoerced(d, k) ==
    IF k \in DOMAIN d THEN [ok |-> TRUE, value |-> d[k]]
                      ELSE [ok |-> TRUE, value |-> 0]

\* A Python dict subscript d[k]: the value, or KeyError.
Lookup(d, k) ==
    IF k \in DOMAIN d THEN [ok |-> TRUE, value |-> d[k]]
                      ELSE [ok |-> FALSE, value |-> 0]

----------------------------------------------------------------------------
(* Timestamps.  A date string is [form, wall, tz]: form "iso" when the     *)
(* text before the zone designator is an ISO-8601 date-time reading wall   *)
(* seconds since 1970-01-01T00:00:00, anything else otherwise; tz is the   *)
(* zone designator as written ("Z", "+00:00", "+01:00" or "" when absent). *)

\* str.replace("Z", "+00:00")
ReplaceZ(date) == IF date.tz = "Z" THEN [date EXCEPT !.tz = "+00:00"] ELSE date

\* datetime.fromisoformat, then .replace(tzinfo=utc).timestamp() * 1000:
\* the written offset is overwritten by UTC, not converted.
to_timestamp(date) ==
    LET d == ReplaceZ(date) IN
    IF d.form = "iso" /\ d.tz \in {"", "+00:00", "+01:00"}
    THEN [ok |-> TRUE, value |-> d.wall * 1000]
    ELSE [ok |-> FALSE, value |-> 0]

----------------------------------------------------------------------------
(* fnmatch.fnmatch(name, pat) on POSIX for patterns without "[": "*" is    *)
(* any run of characters (including "/"), "?" is one character, any other  *)
(* character stands for itself; the match is anchored at both ends and     *)
(* case-sensitive.                                                         *)

RECURSIVE fnmatch(_, _)
fnmatch(name, pat) ==
    IF pat = <<>> THEN name = <<>>
    ELSE IF Head(pat) = "*"
         THEN fnmatch(name, Tail(pat))
              \/ (name # <<>> /\ fnmatch(Tail(name), pat))
         ELSE /\ name # <<>>
              /\ (Head(pat) = "?" \/ Head(pat) = Head(name))
              /\ fnmatch(Tail(name), Tail(pat))

----------------------------------------------------------------------------
(* Entity loading *)

\* The inner loop "for f in self.filters: if fnmatch(path, f): include =
\* True; break", from filter number k on.
RECURSIVE FilterLoop(_, _, _)
FilterLoop(path, filters, k) ==
    IF k > Len(filters) THEN FALSE
    ELSE IF fnmatch(path, filters[k]) THEN TRUE
    ELSE FilterLoop(path, filters, k + 1)

\* A faulty variant of Include: every pattern must match.
IncludeAllMatch(path, filters) ==
    IF Len(filters) > 0
    THEN \A k \in DOMAIN filters : fnmatch(path, filters[k])
    ELSE TRUE

\* include_group / include_project after the filter block.
Include(path, filters) ==
    IF Len(filters) > 0 THEN FilterLoop(path, filters, 1) ELSE TRUE

\* The handles a loader keeps: the attributes read at enumeration time.
GroupHandle(g) == [id |-> g.id, full_path |-> g.full_path]
ProjectHandle(p) == [id |-> p.id, path_with_namespace |-> p.path_with_namespace]

RECURSIVE LoadLoopGroups(_, _, _)
LoadLoopGroups(acc, listing, filters) ==
    IF listing = <<>> THEN acc
    ELSE LoadLoopGroups(
            IF Include(Head(listing).full_path, filters)
            THEN Append(acc, GroupHandle(Head(listing))) ELSE acc,
            Tail(listing), filters)

RECURSIVE LoadLoopProjects(_, _, _)
LoadLoopProjects(acc, listing, filters) ==
    IF listing = <<>> THEN acc
    ELSE LoadLoopProjects(
            IF Include(Head(listing).path_with_namespace, filters)
            THEN Append(acc, ProjectHandle(Head(listing))) ELSE acc,
            Tail(listing), filters)

\* self after load_groups() against the upstream u
load_groups(self, u) ==
    [self EXCEPT !.groups = LoadLoopGroups(self.groups, u.groups, self.filters)]

\* self after load_projects() against the upstream u
load_projects(self, u) ==
    [self EXCEPT !.projects =
        LoadLoopProjects(self.projects, u.projects, self.filters)]

----------------------------------------------------------------------------
(* Upstream REST calls made during a collection pass *)

\* The upstream project / group behind a handle: a sequence of length 1, or
\* empty when it no longer exists (the sub-resource call then fails, 404).
UpProject(u, id) == SelectSeq(u.projects, LAMBDA p : p.id = id)
UpGroup(u, id) == SelectSeq(u.groups, LAMBDA g : g.id = id)

\* proj.protectedbranches.get(name)
GetProtection(p, name) == SelectSeq(p.protectedbranches, LAMBDA r : r.name = name)

\* What a collector method hands back: whether it returned or raised, the
\* metric families it returned, and the instance as the call leaves it.
Raised(self) == [ok |-> FALSE, fams |-> <<>>, self |-> self]
Returned(self, fams) == [ok |-> TRUE, fams |-> fams, self |-> self]

Family(name, rows, v) ==
    [name |-> name,
     samples |-> [k \in DOMAIN rows |->
                    [labels |-> rows[k].labels, value |-> rows[k].values[v]]]]

RowsOk(rows) == \A k \in DOMAIN rows : rows[k].ok

\* str() of a Python bool
str_bool(b) == IF b THEN "True" ELSE "False"

----------------------------------------------------------------------------
(* collect_pipelines *)

PipelineRow(proj, pipeline) ==
    LET st == Lookup(pipeline_status_map, pipeline.status)
        ts == to_timestamp(pipeline.created_at)
    IN  IF pipeline.user = <<>> \/ ~st.ok \/ ~ts.ok
        THEN [ok |-> FALSE, labels |-> <<>>, values |-> <<>>]
        ELSE [ok |-> TRUE,
              labels |-> <<proj.path_with_namespace, pipeline.ref,
                           pipeline.user[1].name, pipeline.user[1].username>>,
              values |-> <<st.value, pipeline.duration, ts.value>>]

PipelineRows(self, u) ==
    [k \in DOMAIN self.projects |->
        LET proj == self.projects[k]
            P == UpProject(u, proj.id)
        IN  IF P = <<>> THEN <<[ok |-> FALSE, labels |-> <<>>, values |-> <<>>]>>
            ELSE [j \in DOMAIN P[1].pipelines |-> PipelineRow(proj, P[1].pipelines[j])]]

collect_pipelines(self, u) ==
    LET rows == Flatten(PipelineRows(self, u)) IN
    IF ~RowsOk(rows) THEN Raised(self)
    ELSE Returned(self, <<Family("gitlab_pipeline_status", rows, 1),
                          Family("gitlab_pipeline_duration", rows, 2),
                          Family("gitlab_pipeline_created_at", rows, 3)>>)

----------------------------------------------------------------------------
(* collect_issues *)

IssueRow(proj, issue) ==
    LET assigned_user == IF Len(issue.assignees) > 0
                         THEN issue.assignees[1].name ELSE "None"
        assigned_username == IF Len(issue.assignees) > 0
                             THEN issue.assignees[1].username ELSE "None"
        st == Lookup(issue_status_map, issue.state)
        ts == to_timestamp(issue.created_at)
    IN  IF ~st.ok \/ ~ts.ok
        THEN [ok |-> FALSE, labels |-> <<>>, values |-> <<>>]
        ELSE [ok |-> TRUE,
              labels |-> <<proj.path_with_namespace, ToString(issue.id),
                           issue.title, assigned_user, assigned_username>>,
              values |-> <<st.value, ts.value>>]

\* A faulty variant of IssueRows: walks every upstream project instead of
\* self.projects.
IssueRowsUnfiltered(self, u) ==
    [k \in DOMAIN u.projects |->
        [j \in DOMAIN u.projects[k].issues |->
            IssueRow(u.projects[k], u.projects[k].issues[j])]]

IssueRows(self, u) ==
    [k \in DOMAIN self.projects |->
        LET proj == self.projects[k]
            P == UpProject(u, proj.id)
        IN  IF P = <<>> THEN <<[ok |-> FALSE, labels |-> <<>>, values |-> <<>>]>>
            ELSE [j \in DOMAIN P[1].issues |-> IssueRow(proj, P[1].issues[j])]]

collect_issues(self, u) ==
    LET rows == Flatten(IssueRows(self, u)) IN
    IF ~RowsOk(rows) THEN Raised(self)
    ELSE Returned(self, <<Family("gitlab_issue_state", rows, 1),
                          Family("gitlab_issue_created_at", rows, 2)>>)

----------------------------------------------------------------------------
(* collect_merge_requests *)

MergeRequestRow(proj, mr) ==
    LET assigned_user == IF mr.assignee # <<>> THEN mr.assignee[1].name ELSE "None"
        assigned_username == IF mr.assignee # <<>>
                             THEN mr.assignee[1].username ELSE "None"
        st == Lookup(mr_status_map, mr.state)
        tc == to_timestamp(mr.created_at)
        tu == to_timestamp(mr.updated_at)
    IN  IF ~st.ok \/ ~tc.ok \/ ~tu.ok
        THEN [ok |-> FALSE, labels |-> <<>>, values |-> <<>>]
        ELSE [ok |-> TRUE,
              labels |-> <<proj.path_with_namespace, ToString(mr.id),
                           str_bool(mr.work_in_progress), mr.title,
                           assigned_user, assigned_username>>,
              values |-> <<st.value, tc.value, tu.value>>]

MergeRequestRows(self, u) ==
    [k \in DOMAIN self.projects |->
        LET proj == self.projects[k]
            P == UpProject(u, proj.id)
        IN  IF P = <<>> THEN <<[ok |-> FALSE, labels |-> <<>>, values |-> <<>>]>>
            ELSE [j \in DOMAIN P[1].mergerequests |->
                    MergeRequestRow(proj, P[1].mergerequests[j])]]

collect_merge_requests(self, u) ==
    LET rows == Flatten(MergeRequestRows(self, u)) IN
    IF ~RowsOk(rows) THEN Raised(self)
    ELSE Returned(self, <<Family("gitlab_merge_request_state", rows, 1),
                          Family("gitlab_merge_request_created_at", rows, 2),
                          Family("gitlab_merge_request_updated_at", rows, 3)>>)

----------------------------------------------------------------------------
(* collect_membership *)

MemberRow(path, member) ==
    [ok |-> TRUE,
     labels |-> <<path, member.name, member.username>>,
     values |-> <<member.access_level>>]

GroupMemberRows(self, u) ==
    [k \in DOMAIN self.groups |->
        LET group == self.groups[k]
            G == UpGroup(u, group.id)
        IN  IF G = <<>> THEN <<[ok |-> FALSE, labels |-> <<>>, values |-> <<>>]>>
            ELSE [j \in DOMAIN G[1].members |->
                    MemberRow(group.full_path, G[1].members[j])]]

ProjectMemberRows(self, u) ==
    [k \in DOMAIN self.projects |->
        LET proj == self.projects[k]
            P == UpProject(u, proj.id)
        IN  IF P = <<>> THEN <<[ok |-> FALSE, labels |-> <<>>, values |-> <<>>]>>
            ELSE [j \in DOMAIN P[1].members |->
                    MemberRow(proj.path_with_namespace, P[1].members[j])]]

\* A faulty variant of collect_membership: empties self.projects as it walks.
collect_membership_consuming(self, u) ==
    LET rows == Flatten(GroupMemberRows(self, u)) \o Flatten(ProjectMemberRows(self, u))
    IN  IF ~RowsOk(rows) THEN Raised(self)
        ELSE Returned([self EXCEPT !.projects = <<>>],
                      <<Family("gitlab_membership", rows, 1)>>)

collect_membership(self, u) ==
    LET rows == Flatten(GroupMemberRows(self, u)) \o Flatten(ProjectMemberRows(self, u))
    IN  IF ~RowsOk(rows) THEN Raised(self)
        ELSE Returned(self, <<Family("gitlab_membership", rows, 1)>>)

----------------------------------------------------------------------------
(* collect_paths *)

PathRows(self) ==
    [k \in DOMAIN self.groups |->
        [ok |-> TRUE, labels |-> <<self.groups[k].full_path>>, values |-> <<1>>]]
    \o
    [k \in DOMAIN self.projects |->
        [ok |-> TRUE, labels |-> <<self.projects[k].path_with_namespace>>,
         values |-> <<1>>]]

\* A faulty variant of collect_paths: calls the loaders again before walking.
collect_paths_reloading(self, u) ==
    LET fresh == load_projects(load_groups(self, u), u) IN
    Returned(fresh, <<Family("gitlab_path", PathRows(fresh), 1)>>)

collect_paths(self, u) ==
    Returned(self, <<Family("gitlab_path", PathRows(self), 1)>>)

----------------------------------------------------------------------------
(* collect_protected_branches *)

\* "for a in levels: v = min(v, a['access_level'])"
RECURSIVE MinLoop(_, _)
MinLoop(v, levels) ==
    IF levels = <<>> THEN v
    ELSE MinLoop(IF Head(levels).access_level < v
                 THEN Head(levels).access_level ELSE v,
                 Tail(levels))

\* A faulty variant of PushMerge: each minimum taken over the other rule list.
PushMergeSwapped(protection) ==
    <<MinLoop(SuperHighLevel, protection.merge_access_levels),
      MinLoop(SuperHighLevel, protection.push_access_levels)>>

\* The pair <<push, merge>> computed from a protection policy.
PushMerge(protection) ==
    <<MinLoop(SuperHighLevel, protection.push_access_levels),
      MinLoop(SuperHighLevel, protection.merge_access_levels)>>

\* A faulty variant of BranchRow: add_metric inside "if branch.protected".
BranchRowSkipUnprotected(proj, P, branch) ==
    IF branch.protected
    THEN LET protection == GetProtection(P, branch.name) IN
         IF protection = <<>>
         THEN <<[ok |-> FALSE, labels |-> <<>>, values |-> <<>>]>>
         ELSE <<[ok |-> TRUE,
                 labels |-> <<proj.path_with_namespace, branch.name>>,
                 values |-> PushMerge(protection[1])]>>
    ELSE <<>>

\* The rows one branch contributes (the code adds exactly one per branch).
BranchRow(proj, P, branch) ==
    IF branch.protected
    THEN LET protection == GetProtection(P, branch.name) IN
         IF protection = <<>>
         THEN <<[ok |-> FALSE, labels |-> <<>>, values |-> <<>>]>>
         ELSE <<[ok |-> TRUE,
                 labels |-> <<proj.path_with_namespace, branch.name>>,
                 values |-> PushMerge(protection[1])]>>
    ELSE <<[ok |-> TRUE,
            labels |-> <<proj.path_with_namespace, branch.name>>,
            values |-> <<0, 0>>]>>

BranchRows(self, u) ==
    [k \in DOMAIN self.projects |->
        LET proj == self.projects[k]
            P == UpProject(u, proj.id)
        IN  IF P = <<>> THEN <<[ok |-> FALSE, labels |-> <<>>, values |-> <<>>]>>
            ELSE Flatten([j \in DOMAIN P[1].branches |->
                            BranchRow(proj, P[1], P[1].branches[j])])]

collect_protected_branches(self, u) ==
    LET rows == Flatten(BranchRows(self, u)) IN
    IF ~RowsOk(rows) THEN Raised(self)
    ELSE Returned(self, <<Family("gitlab_protected_branch_push", rows, 1),
                          Family("gitlab_protected_branch_merge", rows, 2)>>)

----------------------------------------------------------------------------
(* The bound methods a collectors list can hold *)

Invoke(c, self, u) ==
    CASE c = "collect_issues"             -> collect_issues(self, u)
      [] c = "collect_merge_requests"     -> collect_merge_requests(self, u)
      [] c = "collect_pipelines"          -> collect_pipelines(self, u)
      [] c = "collect_membership"         -> collect_membership(self, u)
      [] c = "collect_paths"              -> collect_paths(self, u)
      [] c = "collect_protected_branches" -> collect_protected_branches(self, u)

CollectorNames ==
    {"collect_issues", "collect_merge_requests", "collect_pipelines",
     "collect_membership", "collect_paths", "collect_protected_branches"}

----------------------------------------------------------------------------
(* GitlabCollector.__init__ *)

NewInstance == [groups |-> <<>>, projects |-> <<>>, filters |-> <<>>,
                collectors |-> <<>>]

\* Lines 41-59: the client from the "gitlab" section, then the optional
\* "filter" section; raises when the credential section is unusable, when
\* the filter section lacks the key "filter", or when its value is not JSON.
init_config(cfg) ==
    IF ~cfg.gitlab THEN [ok |-> FALSE, self |-> NewInstance]
    ELSE IF ~cfg.section THEN [ok |-> TRUE, self |-> NewInstance]
    ELSE IF ~cfg.key \/ ~cfg.json THEN [ok |-> FALSE, self |-> NewInstance]
    ELSE [ok |-> TRUE, self |-> [NewInstance EXCEPT !.filters = cfg.filter]]

\* The whole constructor against an upstream that answers both listings.
Construct(cfg, u) ==
    LET a == init_config(cfg) IN
    IF ~a.ok THEN a
    ELSE [ok |-> TRUE, self |-> load_projects(load_groups(a.self, u), u)]

----------------------------------------------------------------------------
(* GitlabCollector.collect *)

FastCollectors == <<"collect_issues", "collect_merge_requests", "collect_pipelines">>
SlowCollectors ==
    <<"collect_membership", "collect_paths", "collect_protected_branches">>

Instances == {1, 2}
Port(i) == IF i = 1 THEN PortFast ELSE PortSlow

IdleScrape == [pc |-> "idle", idx |-> 0, metrics |-> <<>>, out |-> <<>>,
               status |-> "none", prev |-> "none", clean |-> TRUE,
               netfail |-> FALSE, before |-> NewInstance]

\* "metrics = []" and entry into the loop over self.collectors
collect_begin(st) ==
    [IdleScrape EXCEPT !.pc = "collecting", !.idx = 1, !.prev = st.status]

\* A faulty variant of collect_step: each collector's families are yielded as
\* soon as it returns.
collect_step_yielding(st, r) ==
    IF r.ok
    THEN [st EXCEPT !.metrics = @ \o r.fams, !.out = @ \o r.fams, !.idx = @ + 1]
    ELSE [st EXCEPT !.pc = "idle", !.metrics = <<>>, !.status = "failed"]

\* One iteration "metrics += collector()": r is what the collector handed
\* back; an exception leaves the generator, nothing having been yielded.
collect_step(st, r) ==
    IF r.ok
    THEN [st EXCEPT !.metrics = @ \o r.fams, !.idx = @ + 1]
    ELSE [st EXCEPT !.pc = "idle", !.metrics = <<>>, !.status = "failed"]

\* "for metric in metrics: yield metric"
collect_yield(st) ==
    [st EXCEPT !.pc = "idle", !.idx = 0, !.out = st.metrics, !.metrics = <<>>,
               !.status = "ok"]

\* A faulty variant of StepScrapes: metrics is one list shared by the
\* instances.
StepScrapesShared(sc, i, r) ==
    [j \in DOMAIN sc |->
        IF j = i THEN collect_step(sc[j], r)
        ELSE IF r.ok /\ sc[j].pc = "collecting"
             THEN [sc[j] EXCEPT !.metrics = @ \o r.fams]
             ELSE sc[j]]

\* The scrapes after collector_i's pass took one step: metrics is a local of
\* the call, so only that pass changes.
StepScrapes(sc, i, r) == [sc EXCEPT ![i] = collect_step(sc[i], r)]

\* A whole pass of collect() run without interruption, from collector k on.
RECURSIVE RunFrom(_, _, _, _)
RunFrom(self, u, k, acc) ==
    IF k > Len(self.collectors) THEN [ok |-> TRUE, fams |-> acc, self |-> self]
    ELSE LET r == Invoke(self.collectors[k], self, u) IN
         IF ~r.ok THEN [ok |-> FALSE, fams |-> <<>>, self |-> r.self]
         ELSE RunFrom(r.self, u, k + 1, acc \o r.fams)

RunPass(self, u) == RunFrom(self, u, 1, <<>>)

----------------------------------------------------------------------------
(* The upstream platform: the values the model draws its inputs from *)

Alice == [name |-> "Alice", username |-> "alice"]
Bob   == [name |-> "Bob", username |-> "bob"]

DateZ      == [form |-> "iso", wall |-> 86400, tz |-> "Z"]
DateOffset == [form |-> "iso", wall |-> 86400, tz |-> "+00:00"]
DateBad    == [form |-> "garbage", wall |-> 0, tz |-> ""]

PathA  == <<"a">>
PathB  == <<"b">>
PathAA == <<"a", "/", "a">>
PathAB == <<"a", "/", "b">>
PathBA == <<"b", "/", "a">>

Patterns == {<<"*">>, <<"a", "/", "*">>, <<"?", "/", "a">>, <<"b", "*">>,
             <<"a", "/", "a">>, <<"a">>}

Issue(id, assignees, state, created_at) ==
    [id |-> id, title |-> "t", assignees |-> assignees, state |-> state,
     created_at |-> created_at]

GoodIssue      == Issue(1, <<>>, "opened", DateZ)
AssignedIssue  == Issue(2, <<Alice, Bob>>, "closed", DateOffset)
BadStateIssue  == Issue(3, <<Bob>>, "reopened", DateZ)
BadDateIssue   == Issue(4, <<>>, "opened", DateBad)
IssueCatalogue == {GoodIssue, AssignedIssue, BadStateIssue, BadDateIssue}

MergeRequest(id, wip, assignee, state, updated_at) ==
    [id |-> id, work_in_progress |-> wip, title |-> "m", assignee |-> assignee,
     state |-> state, created_at |-> DateZ, updated_at |-> updated_at]

GoodMergeRequest == MergeRequest(1, FALSE, <<>>, "opened", DateZ)
MergeRequestCatalogue ==
    {MergeRequest(1, FALSE, <<>>, st, DateZ) :
        st \in {"opened", "closed", "locked", "merged", "reopened"}}
    \cup {MergeRequest(2, TRUE, <<Alice>>, "merged", DateOffset),
          MergeRequest(3, FALSE, <<>>, "opened", DateBad)}

Pipeline(id, user, status, created_at) ==
    [id |-> id, ref |-> "main", user |-> user, status |-> status,
     duration |-> 60, created_at |-> created_at]

GoodPipeline == Pipeline(1, <<Alice>>, "success", DateZ)
PipelineCatalogue ==
    {Pipeline(1, <<Alice>>, st, DateZ) :
        st \in {"running", "pending", "success", "failed", "canceled",
                "skipped", "manual"}}
    \cup {Pipeline(2, <<>>, "success", DateZ),
          Pipeline(3, <<Bob>>, "failed", DateBad)}

Member(user, level) ==
    [name |-> user.name, username |-> user.username, access_level |-> level]
MemberCatalogue == {Member(Alice, 50), Member(Bob, 30)}

MainBranch == [name |-> "main", protected |-> TRUE]
DevBranch  == [name |-> "dev", protected |-> FALSE]
\* protected by a wildcard rule: no policy is stored under its own name
RelBranch  == [name |-> "rel", protected |-> TRUE]
BranchCatalogue == {MainBranch, DevBranch}

AccessLevels == {30, 40}
Rule(level) == [access_level |-> level]
Protection(name, push, merge) ==
    [name |-> name, push_access_levels |-> push, merge_access_levels |-> merge]

Project(id, path) ==
    [id |-> id, path_with_namespace |-> path,
     members |-> <<Member(Alice, 40)>>,
     issues |-> <<GoodIssue>>,
     mergerequests |-> <<GoodMergeRequest>>,
     pipelines |-> <<GoodPipeline>>,
     branches |-> <<MainBranch, DevBranch>>,
     protectedbranches |-> <<Protection("main", <<Rule(40), Rule(30)>>, <<Rule(40)>>)>>]

Group(id, path) ==
    [id |-> id, full_path |-> path, members |-> <<Member(Bob, 50)>>]

Upstream(groups, projects) ==
    [groups |-> groups, projects |-> projects,
     nextId |-> 1 + Len(groups) + Len(projects)]

BaseUpstream ==
    Upstream(<<Group(1, PathA)>>, <<Project(2, PathAA), Project(3, PathBA)>>)

Config(gitlab, section, key, json, filter) ==
    [gitlab |-> gitlab, section |-> section, key |-> key, json |-> json,
     filter |-> filter]

NoFilterConfig == Config(TRUE, FALSE, FALSE, FALSE, <<>>)
FilterConfig(filter) == Config(TRUE, TRUE, TRUE, TRUE, filter)
BrokenConfigs == {Config(FALSE, FALSE, FALSE, FALSE, <<>>),
                  Config(TRUE, TRUE, FALSE, FALSE, <<>>),
                  Config(TRUE, TRUE, TRUE, FALSE, <<>>)}

----------------------------------------------------------------------------
(* The process: __main__ *)

NoCall == [c |-> "", n |-> 0, res |-> <<>>, prev |-> <<>>,
           before |-> NewInstance]

Init ==
    /\ pc = "collector_1_init"
    /\ config \in {NoFilterConfig, FilterConfig(<<<<"a", "/", "*">>>>)}
                  \cup BrokenConfigs
    /\ up = BaseUpstream
    /\ inst = [i \in Instances |-> NewInstance]
    /\ serving = {}
    /\ scrape = [i \in Instances |-> IdleScrape]
    /\ changes = 0
    /\ fault = "none"
    /\ call = NoCall

Stage(i, step) ==
    IF i = 1 THEN "collector_1_" \o step ELSE "collector_2_" \o step

\* __init__ lines 41-59 of collector_i
ParseConfig(i) ==
    /\ pc = Stage(i, "init")
    /\ LET a == init_config(config) IN
       IF a.ok
       THEN /\ inst' = [inst EXCEPT ![i] = a.self]
            /\ pc' = Stage(i, "load_groups")
            /\ UNCHANGED fault
       ELSE /\ pc' = "terminated"
            /\ fault' = "config"
            /\ UNCHANGED inst
    /\ UNCHANGED <<config, up, serving, scrape, changes, call>>

\* self.load_groups() of collector_i; the listing call may fail
LoadGroups(i) ==
    /\ pc = Stage(i, "load_groups")
    /\ \E answered \in BOOLEAN :
          IF answered
          THEN /\ inst' = [inst EXCEPT ![i] = load_groups(inst[i], up)]
               /\ pc' = Stage(i, "load_projects")
               /\ UNCHANGED fault
          ELSE /\ pc' = "terminated"
               /\ fault' = "enumeration"
               /\ UNCHANGED inst
    /\ UNCHANGED <<config, up, serving, scrape, changes, call>>

\* A faulty variant of LoadProjects: a failed listing is swallowed and the
\* constructor goes on.
LoadProjectsSwallowing(i) ==
    /\ pc = Stage(i, "load_projects")
    /\ \E answered \in BOOLEAN :
          /\ inst' = [inst EXCEPT ![i] =
                         IF answered THEN load_projects(inst[i], up) ELSE inst[i]]
          /\ fault' = IF answered THEN fault ELSE "enumeration"
          /\ pc' = IF i = 1 THEN Stage(2, "init") ELSE "assign"
    /\ UNCHANGED <<config, up, serving, scrape, changes, call>>

\* self.load_projects() of collector_i, then self.collectors = []
LoadProjects(i) ==
    /\ pc = Stage(i, "load_projects")
    /\ \E answered \in BOOLEAN :
          IF answered
          THEN /\ inst' = [inst EXCEPT ![i] = load_projects(inst[i], up)]
               /\ pc' = IF i = 1 THEN Stage(2, "init") ELSE "assign"
               /\ UNCHANGED fault
          ELSE /\ pc' = "terminated"
               /\ fault' = "enumeration"
               /\ UNCHANGED inst
    /\ UNCHANGED <<config, up, serving, scrape, changes, call>>

\* collector_1.collectors = [...]; collector_2.collectors = [...]
AssignCollectors ==
    /\ pc = "assign"
    /\ inst' = [inst EXCEPT ![1].collectors = FastCollectors,
                            ![2].collectors = SlowCollectors]
    /\ pc' = "register_1"
    /\ UNCHANGED <<config, up, serving, scrape, changes, fault, call>>

\* registry.register(collector_i): a registry built with auto_describe=True
\* runs the collector's collect() once to learn its metric names.
Register(i) ==
    /\ pc = IF i = 1 THEN "register_1" ELSE "register_2"
    /\ \E answered \in BOOLEAN :
          LET r == RunPass(inst[i], up) IN
          IF answered /\ r.ok
          THEN /\ inst' = [inst EXCEPT ![i] = r.self]
               /\ pc' = IF i = 1 THEN "register_2" ELSE "start_1"
               /\ UNCHANGED fault
          ELSE /\ pc' = "terminated"
               /\ fault' = "register"
               /\ UNCHANGED inst
    /\ UNCHANGED <<config, up, serving, scrape, changes, call>>

\* start_http_server(port, registry=...)
StartServer(i) ==
    /\ pc = IF i = 1 THEN "start_1" ELSE "start_2"
    /\ serving' = serving \cup {Port(i)}
    /\ pc' = IF i = 1 THEN "start_2" ELSE "sleep"
    /\ UNCHANGED <<config, up, inst, scrape, changes, fault, call>>

\* A scrape request arrives on collector_i's endpoint: collect() starts.
ScrapeBegin(i) ==
    /\ pc # "terminated"
    /\ Port(i) \in serving
    /\ scrape[i].pc = "idle"
    /\ scrape' = [scrape EXCEPT ![i] =
                     [collect_begin(scrape[i]) EXCEPT !.before = inst[i]]]
    /\ UNCHANGED <<pc, config, up, inst, serving, changes, fault, call>>

\* One collector of the pass runs; an upstream call of it may fail.
CollectorStep(i) ==
    /\ pc # "terminated"
    /\ scrape[i].pc = "collecting"
    /\ scrape[i].idx <= Len(inst[i].collectors)
    /\ \E answered \in BOOLEAN :
          LET r == IF answered
                   THEN Invoke(inst[i].collectors[scrape[i].idx], inst[i], up)
                   ELSE Raised(inst[i])
              sc == StepScrapes(scrape, i, r)
          IN  /\ scrape' = [sc EXCEPT ![i].netfail = ~answered]
              /\ inst' = [inst EXCEPT ![i] = r.self]
    /\ UNCHANGED <<pc, config, up, serving, changes, fault, call>>

\* The collectors are done: the families are yielded to the registry.
ScrapeYield(i) ==
    /\ pc # "terminated"
    /\ scrape[i].pc = "collecting"
    /\ scrape[i].idx > Len(inst[i].collectors)
    /\ scrape' = [scrape EXCEPT ![i] = collect_yield(scrape[i])]
    /\ UNCHANGED <<pc, config, up, inst, serving, changes, fault, call>>

(* The upstream platform changes under the exporter *)

Changed ==
    /\ changes < MaxChanges
    /\ changes' = changes + 1
    /\ scrape' = [i \in Instances |-> [scrape[i] EXCEPT !.clean = FALSE]]
    /\ UNCHANGED <<pc, config, inst, serving, fault, call>>

CreateProject(path) ==
    /\ \A k \in DOMAIN up.projects : up.projects[k].path_with_namespace # path
    /\ up' = [up EXCEPT !.projects = Append(@, Project(up.nextId, path)),
                        !.nextId = @ + 1]
    /\ Changed

DeleteProject(id) ==
    /\ up' = [up EXCEPT !.projects = SelectSeq(@, LAMBDA p : p.id # id)]
    /\ Changed

CreateGroup(path) ==
    /\ \A k \in DOMAIN up.groups : up.groups[k].full_path # path
    /\ up' = [up EXCEPT !.groups = Append(@, Group(up.nextId, path)),
                        !.nextId = @ + 1]
    /\ Changed

DeleteGroup(id) ==
    /\ up' = [up EXCEPT !.groups = SelectSeq(@, LAMBDA g : g.id # id)]
    /\ Changed

OpenIssue(k, issue) ==
    /\ up' = [up EXCEPT !.projects[k].issues = Append(@, issue)]
    /\ Changed

UpstreamChange ==
    \/ \E path \in {PathAA, PathAB} : CreateProject(path)
    \/ \E k \in DOMAIN up.projects : DeleteProject(up.projects[k].id)
    \/ \E path \in {PathA, PathB} : CreateGroup(path)
    \/ \E k \in DOMAIN up.groups : DeleteGroup(up.groups[k].id)
    \/ \E k \in DOMAIN up.projects :
          \E issue \in {BadStateIssue, BadDateIssue} : OpenIssue(k, issue)

Next ==
    \/ \E i \in Instances : ParseConfig(i)
    \/ \E i \in Instances : LoadGroups(i)
    \/ \E i \in Instances : LoadProjects(i)
    \/ AssignCollectors
    \/ \E i \in Instances : Register(i)
    \/ \E i \in Instances : StartServer(i)
    \/ \E i \in Instances : ScrapeBegin(i)
    \/ \E i \in Instances : CollectorStep(i)
    \/ \E i \in Instances : ScrapeYield(i)
    \/ UpstreamChange

Spec == Init /\ [][Next]_vars

----------------------------------------------------------------------------
(* One collector instance exercised directly: it is constructed against an  *)
(* upstream drawn from bounded sets, then its collector methods are invoked *)
(* in any order, the upstream staying as it is.                             *)

MkUpstream(gpaths, ppaths) ==
    Upstream([k \in DOMAIN gpaths |-> Group(k, gpaths[k])],
             [k \in DOMAIN ppaths |-> Project(Len(gpaths) + k, ppaths[k])])

GroupListings == {<<>>, <<PathB, PathA>>}
ProjectListings == {<<>>, <<PathAB>>, <<PathBA, PathAA>>, <<PathAA, PathAB, PathBA>>}

\* Worlds that vary the filter list and the listings.
LoadWorlds ==
    {<<cfg, MkUpstream(gs, ps)>> :
        cfg \in {NoFilterConfig}
                \cup {FilterConfig(f) : f \in SeqsUpTo(Patterns, MaxFilters)},
        gs \in GroupListings, ps \in ProjectListings}

ScopeConfigs == {NoFilterConfig, FilterConfig(<<<<"a", "/", "*">>>>)}

\* Worlds that vary one facet of project a/a; project b/a keeps the default.
VariedProjects ==
    {[Project(2, PathAA) EXCEPT !.issues = l] :
        l \in SeqsUpTo(IssueCatalogue, MaxItems)}
    \cup {[Project(2, PathAA) EXCEPT !.mergerequests = l] :
        l \in SeqsUpTo(MergeRequestCatalogue, MaxItems)}
    \cup {[Project(2, PathAA) EXCEPT !.pipelines = l] :
        l \in SeqsUpTo(PipelineCatalogue, MaxItems)}
    \cup {[Project(2, PathAA) EXCEPT !.members = l] :
        l \in SeqsUpTo(MemberCatalogue, MaxItems)}

FacetWorlds ==
    {<<cfg, Upstream(<<Group(1, PathA)>>, <<p, Project(3, PathBA)>>)>> :
        cfg \in ScopeConfigs, p \in VariedProjects}

RuleLists == SeqsUpTo({Rule(l) : l \in AccessLevels}, MaxItems)

BranchWorlds ==
    {<<NoFilterConfig,
       Upstream(<<Group(1, PathA)>>,
                <<[Project(2, PathAA) EXCEPT
                      !.branches = b,
                      !.protectedbranches = <<Protection("main", push, merge)>>]>>)>> :
        b \in SeqsUpTo(BranchCatalogue, MaxItems) \cup {<<DevBranch, RelBranch>>},
        push \in RuleLists, merge \in RuleLists}

BrokenWorlds == {<<cfg, BaseUpstream>> : cfg \in BrokenConfigs}

InitCollect ==
    /\ pc = "unit_new"
    /\ \E w \in LoadWorlds \cup FacetWorlds \cup BranchWorlds \cup BrokenWorlds :
          /\ config = w[1]
          /\ up = w[2]
    /\ inst = [i \in Instances |-> NewInstance]
    /\ serving = {}
    /\ scrape = [i \in Instances |-> IdleScrape]
    /\ changes = 0
    /\ fault = "none"
    /\ call = NoCall

\* collector = GitlabCollector()
UnitConstruct ==
    /\ pc = "unit_new"
    /\ LET a == Construct(config, up) IN
       IF a.ok
       THEN /\ inst' = [inst EXCEPT ![1] = a.self]
            /\ pc' = "unit_ready"
            /\ UNCHANGED fault
       ELSE /\ pc' = "terminated"
            /\ fault' = "config"
            /\ UNCHANGED inst
    /\ UNCHANGED <<config, up, serving, scrape, changes, call>>

\* collector.<c>(): call remembers the instance before the call, what the
\* call handed back and, when the call before it was of the same method,
\* what that one handed back.
UnitInvoke(c) ==
    /\ pc = "unit_ready"
    /\ LET r == Invoke(c, inst[1], up) IN
       /\ call' = [c |-> c,
                   n |-> IF call.c = c THEN 2 ELSE 1,
                   res |-> <<[ok |-> r.ok, fams |-> r.fams]>>,
                   prev |-> IF call.c = c THEN call.res ELSE <<>>,
                   before |-> inst[1]]
       /\ inst' = [inst EXCEPT ![1] = r.self]
    /\ UNCHANGED <<pc, config, up, serving, scrape, changes, fault>>

NextCollect ==
    \/ UnitConstruct
    \/ \E c \in CollectorNames : UnitInvoke(c)

SpecCollect == InitCollect /\ [][NextCollect]_vars

----------------------------------------------------------------------------
(* Properties of one collector instance exercised directly (SpecCollect)    *)

\* The filter list the configuration supplies.
ConfiguredFilters == IF config.section THEN config.filter ELSE <<>>

\* The retention rule as the specification words it.
Retained(path, L) == L = <<>> \/ \E k \in DOMAIN L : fnmatch(path, L[k])

InScopeGroups ==
    SelectSeq(up.groups, LAMBDA g : Retained(g.full_path, ConfiguredFilters))
InScopeProjects ==
    SelectSeq(up.projects,
              LAMBDA p : Retained(p.path_with_namespace, ConfiguredFilters))

CallOf(c) == pc = "unit_ready" /\ call.c = c
CallOk(c) == CallOf(c) /\ call.res[1].ok
CallFams == call.res[1].fams

\* C1: after construction the instance holds, in listing order, exactly the
\* enumerated groups and projects whose path the filter list retains: all of
\* them when the list is empty, otherwise those that some pattern matches.
C1_FilterRetention ==
    pc = "unit_ready" =>
        /\ inst[1].filters = ConfiguredFilters
        /\ inst[1].groups =
              [k \in DOMAIN InScopeGroups |-> GroupHandle(InScopeGroups[k])]
        /\ inst[1].projects =
              [k \in DOMAIN InScopeProjects |-> ProjectHandle(InScopeProjects[k])]
        /\ (ConfiguredFilters = <<>> =>
              /\ Len(inst[1].groups) = Len(up.groups)
              /\ Len(inst[1].projects) = Len(up.projects))
        /\ (ConfiguredFilters # <<>> =>
              \A k \in DOMAIN inst[1].projects :
                 \E f \in Range(ConfiguredFilters) :
                    fnmatch(inst[1].projects[k].path_with_namespace, f))

\* A project retained by the second of two patterns only, next to an
\* excluded project and an excluded group.
C1_Witness ==
    /\ pc = "unit_ready"
    /\ Len(inst[1].filters) = 2
    /\ Len(inst[1].projects) < Len(up.projects)
    /\ Len(inst[1].groups) < Len(up.groups)
    /\ \E k \in DOMAIN inst[1].projects :
          /\ ~fnmatch(inst[1].projects[k].path_with_namespace, inst[1].filters[1])
          /\ fnmatch(inst[1].projects[k].path_with_namespace, inst[1].filters[2])

\* The <<project, branch>> pairs of the branch listings of the in-scope
\* projects, in walk order, and whether each is protected.
WalkedBranches ==
    Flatten([k \in DOMAIN InScopeProjects |->
        [j \in DOMAIN InScopeProjects[k].branches |->
            [labels |-> <<InScopeProjects[k].path_with_namespace,
                          InScopeProjects[k].branches[j].name>>,
             protected |-> InScopeProjects[k].branches[j].protected,
             project |-> InScopeProjects[k]]]])

PushSamples == SamplesOf(CallFams, "gitlab_protected_branch_push")
MergeSamples == SamplesOf(CallFams, "gitlab_protected_branch_merge")

\* C2 as claimed: in a completed pass of collect_protected_branches the two
\* families hold a sample only for protected branches.
C2_UnprotectedOmitted ==
    CallOk("collect_protected_branches") =>
        \A s \in Range(PushSamples) \cup Range(MergeSamples) :
           \E b \in Range(WalkedBranches) : b.labels = s.labels /\ b.protected

\* C2 as amended: in a completed pass every branch of the listing, protected
\* or not, yields one sample in each family, and the samples of an
\* unprotected branch carry the value 0.
C2_UnprotectedReportedZero ==
    CallOk("collect_protected_branches") =>
        /\ Len(PushSamples) = Len(WalkedBranches)
        /\ Len(MergeSamples) = Len(WalkedBranches)
        /\ \A k \in DOMAIN WalkedBranches :
              /\ PushSamples[k].labels = WalkedBranches[k].labels
              /\ MergeSamples[k].labels = WalkedBranches[k].labels
              /\ (~WalkedBranches[k].protected =>
                    PushSamples[k].value = 0 /\ MergeSamples[k].value = 0)

C2_Witness ==
    /\ CallOk("collect_protected_branches")
    /\ \E k, j \in DOMAIN WalkedBranches :
          /\ ~WalkedBranches[k].protected
          /\ PushSamples[k].value = 0
          /\ WalkedBranches[j].protected

\* The access levels of a rule list.
LevelsOf(rules) == {rules[k].access_level : k \in DOMAIN rules}
IsLowest(v, S) == v \in S /\ \A l \in S : v <= l
PolicyOf(b) == GetProtection(b.project, b.labels[2])[1]

\* C8 as claimed: for every protected branch the push value is the lowest
\* access_level among its push rules and the merge value the lowest among
\* its merge rules.
C8_LowestAmongRules ==
    CallOk("collect_protected_branches") =>
        \A k \in DOMAIN WalkedBranches :
           WalkedBranches[k].protected =>
              /\ IsLowest(PushSamples[k].value,
                          LevelsOf(PolicyOf(WalkedBranches[k]).push_access_levels))
              /\ IsLowest(MergeSamples[k].value,
                          LevelsOf(PolicyOf(WalkedBranches[k]).merge_access_levels))

\* C8 as amended: for every protected branch the push value is the lowest of
\* 100000 and the access_levels of its push rules, and the merge value the
\* lowest of 100000 and the access_levels of its merge rules, each computed
\* from its own rule list only.
C8_LowestOrDefault ==
    CallOk("collect_protected_branches") =>
        \A k \in DOMAIN WalkedBranches :
           WalkedBranches[k].protected =>
              /\ IsLowest(PushSamples[k].value,
                          {SuperHighLevel} \cup
                          LevelsOf(PolicyOf(WalkedBranches[k]).push_access_levels))
              /\ IsLowest(MergeSamples[k].value,
                          {SuperHighLevel} \cup
                          LevelsOf(PolicyOf(WalkedBranches[k]).merge_access_levels))

\* Push rules {40, 30} and merge rules {40}: push = 30, merge = 40.
C8_Witness ==
    /\ CallOk("collect_protected_branches")
    /\ \E k \in DOMAIN WalkedBranches :
          /\ WalkedBranches[k].protected
          /\ PolicyOf(WalkedBranches[k]).push_access_levels = <<Rule(40), Rule(30)>>
          /\ PolicyOf(WalkedBranches[k]).merge_access_levels = <<Rule(40)>>
          /\ PushSamples[k].value = 30
          /\ MergeSamples[k].value = 40

\* The status tables as the specification declares them.
DeclaredPipelineCodes ==
    {<<"running", 0>>, <<"pending", 1>>, <<"success", 2>>, <<"failed", 3>>,
     <<"canceled", 4>>, <<"skipped", 5>>}
DeclaredIssueCodes == {<<"opened", 0>>, <<"closed", 1>>}
DeclaredMergeRequestCodes ==
    {<<"opened", 0>>, <<"closed", 1>>, <<"locked", 2>>, <<"merged", 3>>}

Graph(f) == {<<x, f[x]>> : x \in DOMAIN f}
Injective(f) == \A x, y \in DOMAIN f : f[x] = f[y] => x = y

\* The status strings of the items a status collector walks: the items of
\* the upstream projects behind the instance's project handles, in order.
WalkedStatuses(c) ==
    Flatten([k \in DOMAIN inst[1].projects |->
        LET P == UpProject(up, inst[1].projects[k].id)[1] IN
        CASE c = "collect_pipelines" ->
                [j \in DOMAIN P.pipelines |-> P.pipelines[j].status]
          [] c = "collect_issues" ->
                [j \in DOMAIN P.issues |-> P.issues[j].state]
          [] c = "collect_merge_requests" ->
                [j \in DOMAIN P.mergerequests |-> P.mergerequests[j].state]])

StatusFamily(c) ==
    CASE c = "collect_pipelines" -> "gitlab_pipeline_status"
      [] c = "collect_issues" -> "gitlab_issue_state"
      [] c = "collect_merge_requests" -> "gitlab_merge_request_state"

DeclaredCodes(c) ==
    CASE c = "collect_pipelines" -> DeclaredPipelineCodes
      [] c = "collect_issues" -> DeclaredIssueCodes
      [] c = "collect_merge_requests" -> DeclaredMergeRequestCodes

StatusCollectors == {"collect_pipelines", "collect_issues", "collect_merge_requests"}

\* C5: the three status tables are exactly the declared ones, each with
\* distinct codes; a status collector that returns reports for every item the
\* declared code of its status, and one that meets a status outside the
\* declared set raises instead of returning.
C5_StatusMapping ==
    /\ Graph(pipeline_status_map) = DeclaredPipelineCodes
    /\ Graph(issue_status_map) = DeclaredIssueCodes
    /\ Graph(mr_status_map) = DeclaredMergeRequestCodes
    /\ Injective(pipeline_status_map)
    /\ Injective(issue_status_map)
    /\ Injective(mr_status_map)
    /\ \A c \in StatusCollectors :
          CallOf(c) =>
             LET sts == WalkedStatuses(c)
                 smp == SamplesOf(CallFams, StatusFamily(c))
             IN  /\ ((\E k \in DOMAIN sts :
                        \A d \in DeclaredCodes(c) : d[1] # sts[k])
                     => ~call.res[1].ok)
                 /\ (call.res[1].ok =>
                       /\ Len(smp) = Len(sts)
                       /\ \A k \in DOMAIN sts :
                             <<sts[k], smp[k].value>> \in DeclaredCodes(c))

\* A pipeline pass that raised because of the status "manual" alone.
C5_Witness ==
    /\ CallOf("collect_pipelines")
    /\ ~call.res[1].ok
    /\ "manual" \in Range(WalkedStatuses("collect_pipelines"))
    /\ \A k \in DOMAIN up.projects : \A j \in DOMAIN up.projects[k].pipelines :
          /\ up.projects[k].pipelines[j].user # <<>>
          /\ up.projects[k].pipelines[j].created_at # DateBad

\* C6: a collector invocation leaves the instance's groups, projects, filters
\* and collectors as they were, and the second of two successive invocations
\* of the same collector hands back what the first did.
C6_Idempotent ==
    (pc = "unit_ready" /\ call.n >= 1) =>
        /\ inst[1] = call.before
        /\ (call.n = 2 => call.res = call.prev)

C6_Witness ==
    /\ pc = "unit_ready"
    /\ call.n = 2
    /\ call.c = "collect_membership"
    /\ call.res[1].ok
    /\ Len(AllSamples(CallFams)) >= 3

\* The <<project path, str(id)>> pairs of the issue listings of the in-scope
\* projects, in walk order.
WalkedIssues ==
    Flatten([k \in DOMAIN InScopeProjects |->
        [j \in DOMAIN InScopeProjects[k].issues |->
            <<InScopeProjects[k].path_with_namespace,
              ToString(InScopeProjects[k].issues[j].id)>>]])

ExcludedPaths ==
    {up.projects[k].path_with_namespace : k \in DOMAIN up.projects}
    \ {InScopeProjects[k].path_with_namespace : k \in DOMAIN InScopeProjects}

\* C7: a completed pass of collect_issues holds one issue_state sample and one
\* issue_created_at sample per issue of each in-scope project, labelled with
\* that project's path, and none labelled with an excluded project.
C7_IssuesInScope ==
    CallOk("collect_issues") =>
        \A name \in {"gitlab_issue_state", "gitlab_issue_created_at"} :
           LET smp == SamplesOf(CallFams, name) IN
           /\ Len(smp) = Len(WalkedIssues)
           /\ \A k \in DOMAIN smp :
                 /\ smp[k].labels[1] = WalkedIssues[k][1]
                 /\ smp[k].labels[2] = WalkedIssues[k][2]
                 /\ smp[k].labels[1] \notin ExcludedPaths

\* The filter excludes a project that has issues upstream; the in-scope
\* project has two.
C7_Witness ==
    /\ CallOk("collect_issues")
    /\ Len(SamplesOf(CallFams, "gitlab_issue_state")) = 2
    /\ \E k \in DOMAIN up.projects :
          /\ up.projects[k].path_with_namespace \in ExcludedPaths
          /\ up.projects[k].issues # <<>>

----------------------------------------------------------------------------
(* Properties of the running process (Spec)                                 *)

Parseable(date) == date.form = "iso"

\* Nothing upstream makes a pass of collector_1 raise: its projects exist,
\* every status is a declared one, every date parses, every pipeline has a
\* user.
FastHealthy ==
    \A h \in Range(inst[1].projects) :
       \E p \in Range(up.projects) :
          /\ p.id = h.id
          /\ \A x \in Range(p.issues) :
                x.state \in {"opened", "closed"} /\ Parseable(x.created_at)
          /\ \A x \in Range(p.mergerequests) :
                /\ x.state \in {"opened", "closed", "locked", "merged"}
                /\ Parseable(x.created_at) /\ Parseable(x.updated_at)
          /\ \A x \in Range(p.pipelines) :
                /\ x.status \in {"running", "pending", "success", "failed",
                                 "canceled", "skipped"}
                /\ x.user # <<>> /\ Parseable(x.created_at)

\* Nothing upstream makes a pass of collector_2 raise: its groups and
\* projects exist and every protected branch has a policy under its name.
SlowHealthy ==
    /\ \A h \in Range(inst[2].groups) : \E g \in Range(up.groups) : g.id = h.id
    /\ \A h \in Range(inst[2].projects) :
          \E p \in Range(up.projects) :
             /\ p.id = h.id
             /\ \A b \in Range(p.branches) :
                   b.protected => \E r \in Range(p.protectedbranches) : r.name = b.name

Healthy(i) == IF i = 1 THEN FastHealthy ELSE SlowHealthy

Finished(i) == scrape[i].pc = "idle" /\ scrape[i].status # "none"

\* C3: a pass yields nothing before all its collectors have run, so a failed
\* pass has yielded no family at all; the failure leaves the instance as it
\* was when the pass began; and a pass run against an unchanged upstream
\* succeeds exactly when no upstream call failed and the upstream is healthy.
C3_FailedPassYieldsNothing ==
    \A i \in Instances :
       /\ scrape[i].pc = "collecting" => scrape[i].out = <<>>
       /\ scrape[i].status = "failed" =>
             scrape[i].out = <<>> /\ inst[i] = scrape[i].before
       /\ (Finished(i) /\ scrape[i].clean) =>
             (scrape[i].status = "ok" <=> (~scrape[i].netfail /\ Healthy(i)))

\* One endpoint failed in its second or third collector; the other served a
\* pass with families right after a failed one.
C3_Witness ==
    \E i, j \in Instances :
       /\ scrape[i].status = "failed" /\ scrape[i].idx >= 2
       /\ scrape[j].status = "ok" /\ scrape[j].prev = "failed"
       /\ scrape[j].out # <<>>

ConfigValid == config.gitlab /\ (config.section => config.key /\ config.json)

\* No scrape of collector_i's endpoint has begun.
Unserved(i) ==
    scrape[i].pc = "idle" /\ scrape[i].status = "none" /\ scrape[i].prev = "none"

C4_Startup ==
    /\ serving # {} =>
          pc \in {"start_2", "sleep"} /\ fault = "none" /\ ConfigValid
    /\ fault # "none" => pc = "terminated"
    /\ pc = "terminated" =>
          serving = {} /\ \A i \in Instances : Unserved(i)
    /\ ~ConfigValid => pc \in {"collector_1_init", "terminated"}
    /\ \A i \in Instances : ~Unserved(i) => Port(i) \in serving

\* C4: no endpoint serves before both instances have been constructed without
\* error; a startup failure (invalid configuration, a failed enumeration)
\* terminates the process, which then stays terminated with no endpoint
\* serving and no scrape ever served.
C4_StartupFatal ==
    /\ []C4_Startup
    /\ [][pc = "terminated" => pc' = "terminated" /\ serving' = {}]_vars

\* collector_1 was built, then the construction of collector_2 failed.
C4_Witness ==
    /\ pc = "terminated"
    /\ fault = "enumeration"
    /\ inst[1].projects # <<>>
    /\ inst[2].groups # <<>>

Loaded(i) ==
    pc \notin {Stage(j, step) : j \in 1..i,
                                step \in {"init", "load_groups", "load_projects"}}

EntityPaths(self) ==
    {self.groups[k].full_path : k \in DOMAIN self.groups}
    \cup {self.projects[k].path_with_namespace : k \in DOMAIN self.projects}

C9_Labels ==
    \A i \in Instances :
       /\ \A s \in Range(AllSamples(scrape[i].out))
                   \cup Range(AllSamples(scrape[i].metrics)) :
             s.labels[1] \in EntityPaths(inst[i])
       /\ (i = 2 /\ scrape[i].status = "ok") =>
             LET smp == SamplesOf(scrape[i].out, "gitlab_path") IN
             [k \in DOMAIN smp |-> smp[k].labels[1]]
                = [k \in DOMAIN inst[i].groups |-> inst[i].groups[k].full_path]
                  \o [k \in DOMAIN inst[i].projects |->
                         inst[i].projects[k].path_with_namespace]

\* C9: once an instance is loaded its groups and projects never change,
\* whatever is scraped and whatever is created or deleted upstream, and every
\* sample of every pass is labelled with an entity of that loaded set.
C9_EntitiesFrozen ==
    /\ []C9_Labels
    /\ [][\A i \in Instances :
            Loaded(i) => /\ inst'[i].groups = inst[i].groups
                         /\ inst'[i].projects = inst[i].projects]_vars

\* A pass served after a project was created upstream that the instance
\* does not hold.
C9_Witness ==
    /\ scrape[2].status = "ok"
    /\ ~scrape[2].clean
    /\ SamplesOf(scrape[2].out, "gitlab_path") # <<>>
    /\ \E p \in Range(up.projects) :
          \A h \in Range(inst[2].projects) : h.id # p.id

\* A step of collector_i's scrape.
ScrapeStep(i) == scrape'[i] # scrape[i] /\ changes' = changes

C10_AsAlone ==
    \A i \in Instances :
       (Finished(i) /\ scrape[i].clean /\ ~scrape[i].netfail) =>
          LET r == RunPass(inst[i], up) IN
          /\ (scrape[i].status = "ok") = r.ok
          /\ scrape[i].out = r.fams

\* C10: a step of one endpoint's scrape changes nothing of the other
\* endpoint's scrape or instance and nothing both read, and a pass run
\* against an unchanged upstream returns what the pass run alone returns.
C10_Independent ==
    /\ []C10_AsAlone
    /\ [][\A i \in Instances :
            ScrapeStep(i) =>
               /\ \A j \in Instances \ {i} :
                     scrape'[j] = scrape[j] /\ inst'[j] = inst[j]
               /\ UNCHANGED <<pc, config, up, serving>>]_vars

\* Both endpoints are in the middle of a pass at once.
C10_Witness ==
    /\ scrape[1].pc = "collecting" /\ scrape[1].idx = 2
    /\ scrape[2].pc = "collecting" /\ scrape[2].idx = 3
    /\ scrape[1].metrics # <<>> /\ scrape[2].metrics # <<>>

====
